---- MODULE Spec2Model ----
(***************************************************************************)
(* A model of the rust-rtree crate: the bounding-box algebra (bbox.rs),    *)
(* the ray (ray.rs) and the R-tree with its insertion, quadratic split,    *)
(* choose-subtree and ray-query iterator (lib.rs).                         *)
(*                                                                         *)
(* Numbers.  Coordinates are small integers, on which f64 arithmetic is    *)
(* exact, so volumes and differences are Integers.  The ray-box slab test  *)
(* divides by direction components and multiplies by infinities, so its    *)
(* t-values are modelled as IEEE values: a finite rational, +inf, -inf or  *)
(* NaN, with IEEE comparison (every comparison with NaN is false).         *)
(*                                                                         *)
(* Option<T> is a sequence of length 0 (None) or 1 (Some).  Vec<T> is a    *)
(* sequence; positions are 1-based where Rust's are 0-based.               *)
(***************************************************************************)
EXTENDS Integers, Sequences, FiniteSets

\* NODE_SIZE is 64 in lib.rs:19.  The model runs the same code with a node
\* capacity scaled down to 3, so that full nodes and the overflow path are
\* reached; it is a bound of the model.
NODE_SIZE == 3

\* Box corners of the ray test lie on the even grid 0, 2, .., 2*HalfGrid, so
\* that the centre of every box is a grid point.
HalfGrid == 1

\* Direction components of the ray test range over -MaxDir..MaxDir, with
\* both signed zeros.
MaxDir == 1

\* The leaves of the trees the iterator is run over on its own hold 1 to
\* MaxLeafLen entries.
MaxLeafLen == 2

None == <<>>
Some(x) == <<x>>

Min2(a, b) == IF a < b THEN a ELSE b
Max2(a, b) == IF a > b THEN a ELSE b

(***************************************************************************)
(* f64 values of the slab test.                                            *)
(***************************************************************************)
Fin(n, d) == [c |-> "fin", n |-> n, d |-> d]
PInf == [c |-> "pinf", n |-> 0, d |-> 1]
NInf == [c |-> "ninf", n |-> 0, d |-> 1]
NaN == [c |-> "nan", n |-> 0, d |-> 1]
FZero == Fin(0, 1)

\* A direction component: a signed magnitude, so that -0.0 and 0.0 differ.
DirVal(neg, mag) == [neg |-> neg, mag |-> mag]

\* 1.0 / x for a direction component x (ray.rs:14-16).
FRecip(x) ==
  IF x.mag = 0 THEN (IF x.neg THEN NInf ELSE PInf)
  ELSE Fin(IF x.neg THEN -1 ELSE 1, x.mag)

\* a * f for a finite a (a difference of coordinates) and an f64 f
\* (bbox.rs:116): 0 * inf is NaN.
FMul(a, f) ==
  CASE f.c = "fin" -> Fin(a * f.n, f.d)
    [] f.c = "nan" -> NaN
    [] f.c = "pinf" -> IF a > 0 THEN PInf ELSE IF a < 0 THEN NInf ELSE NaN
    [] f.c = "ninf" -> IF a > 0 THEN NInf ELSE IF a < 0 THEN PInf ELSE NaN

\* x > y on f64: false when either is NaN.
FGt(x, y) ==
  CASE x.c = "nan" \/ y.c = "nan" -> FALSE
    [] x.c = "pinf" -> y.c # "pinf"
    [] x.c = "ninf" -> FALSE
    [] OTHER -> CASE y.c = "ninf" -> TRUE
                  [] y.c = "pinf" -> FALSE
                  [] OTHER -> x.n * y.d > y.n * x.d

FLt(x, y) == FGt(y, x)

(***************************************************************************)
(* bbox.rs.  A BBox is [min |-> <<x,y,z>>, max |-> <<x,y,z>>].             *)
(***************************************************************************)
BBox(mn, mx) == [min |-> mn, max |-> mx]

union_bbox(b1, b2) ==
  BBox(<<Min2(b1.min[1], b2.min[1]), Min2(b1.min[2], b2.min[2]),
         Min2(b1.min[3], b2.min[3])>>,
       <<Max2(b1.max[1], b2.max[1]), Max2(b1.max[2], b2.max[2]),
         Max2(b1.max[3], b2.max[3])>>)

union(self, other) == union_bbox(self, other)

contains(self, other) ==
  /\ other.min[1] >= self.min[1]
  /\ other.min[2] >= self.min[2]
  /\ other.min[3] >= self.min[3]
  /\ other.max[1] <= self.max[1]
  /\ other.max[2] <= self.max[2]
  /\ other.max[3] <= self.max[3]

volume(self) ==
  (self.max[1] - self.min[1]) * (self.max[2] - self.min[2])
    * (self.max[3] - self.min[3])

(***************************************************************************)
(* ray.rs.                                                                 *)
(***************************************************************************)
Ray_new(origin, direction) ==
  LET inv_x == FRecip(direction[1])
      inv_y == FRecip(direction[2])
      inv_z == FRecip(direction[3])
  IN [origin |-> origin,
      direction |-> direction,
      inverse_dir |-> <<inv_x, inv_y, inv_z>>,
      signs |-> <<FGt(inv_x, FZero), FGt(inv_y, FZero), FGt(inv_z, FZero)>>]

\* The t-values of one axis: (near bound - o) * inverse_dir and
\* (far bound - o) * inverse_dir, the near bound chosen by the sign bit
\* (bbox.rs:111-117, 119-125, 137-143).
slab(self, ray, i) ==
  LET min_bound == IF ray.signs[i] THEN self.min ELSE self.max
      max_bound == IF ray.signs[i] THEN self.max ELSE self.min
  IN [lo |-> FMul(min_bound[i] - ray.origin[i], ray.inverse_dir[i]),
      hi |-> FMul(max_bound[i] - ray.origin[i], ray.inverse_dir[i])]

\* BBox::intersects (bbox.rs:91-157).
intersects(self, ray) ==
  LET tx == slab(self, ray, 1)
      ty == slab(self, ray, 2)
      tz == slab(self, ray, 3)
  IN IF FGt(tx.lo, ty.hi) \/ FGt(ty.lo, tx.hi) THEN FALSE
     ELSE LET t_min1 == IF FGt(ty.lo, tx.lo) THEN ty.lo ELSE tx.lo
              t_max1 == IF FLt(ty.hi, tx.hi) THEN ty.hi ELSE tx.hi
          IN IF FGt(t_min1, tz.hi) \/ FGt(tz.lo, t_max1) THEN FALSE
             ELSE LET t_min2 == IF FGt(tz.lo, t_min1) THEN tz.lo ELSE t_min1
                      t_max2 == IF FLt(tz.hi, t_max1) THEN tz.hi ELSE t_max1
                  IN FLt(t_min2, PInf) /\ FGt(t_max2, FZero)

(***************************************************************************)
(* lib.rs, mod util.  Volumes are compared against an accumulator that     *)
(* starts at f64::MAX, which exceeds every volume of the model: an         *)
(* accumulator is [isMax |-> TRUE] or a finite value.                      *)
(***************************************************************************)
F64_MAX == [isMax |-> TRUE, v |-> 0]
F64(v) == [isMax |-> FALSE, v |-> v]

\* x < acc for a finite x and an accumulator acc.
LtAcc(x, acc) == IF acc.isMax THEN TRUE ELSE x < acc.v

\* Mbr::mbr: every stored item, every leaf entry's cache and every node
\* carries its box in the field bbox (lib.rs:21-23, 87-91).
mbr(x) == x.bbox

\* The difference pick_seeds computes for a pair (lib.rs:264).
seed_difference(e1, e2) == volume(union(e1, e2)) - volume(e1) - volume(e2)

RECURSIVE pick_seeds_loop(_, _, _, _)
pick_seeds_loop(children, i, min_d, best_box) ==
  IF i > Len(children) THEN best_box
  ELSE LET e1 == children[i][1]
           e2 == children[i][2]
           difference == seed_difference(e1, e2)
       IN IF LtAcc(difference, min_d)
          THEN pick_seeds_loop(children, i + 1, F64(difference), Some(<<e1, e2>>))
          ELSE pick_seeds_loop(children, i + 1, min_d, best_box)

\* util::pick_seeds (lib.rs:256-272): over the pairs it is handed, the first
\* pair of least difference; None when there is no pair.
pick_seeds(children) == pick_seeds_loop(children, 1, F64_MAX, None)

\* The pairs quad_split hands to pick_seeds (lib.rs:282-285): the zip of the
\* items' boxes with the items' boxes.
seed_pairs(items) == [i \in 1..Len(items) |-> <<mbr(items[i]), mbr(items[i])>>]

\* util::expansion (lib.rs:274-276).
expansion(target, adding) == volume(union(target, adding)) - volume(target)

\* PartialOrd::partial_cmp on two finite values (lib.rs:297-300).
partial_cmp(a, b) == IF a < b THEN "Less" ELSE IF a = b THEN "Equal" ELSE "Greater"

\* choose_group that breaks every tie towards lefts, whatever the sizes.
choose_group_ties_left(comparison, nlefts, nrights) ==
  IF comparison = "Greater" THEN "R" ELSE "L"

\* The group an item goes to (lib.rs:302-310): "L" for lefts, "R" for rights.
choose_group(comparison, nlefts, nrights) ==
  CASE comparison = "Less" -> "L"
    [] comparison = "Equal" ->
         (CASE partial_cmp(nlefts, nrights) = "Less" -> "L"
            [] partial_cmp(nlefts, nrights) = "Equal" -> "L"
            [] partial_cmp(nlefts, nrights) = "Greater" -> "R")
    [] comparison = "Greater" -> "R"

RECURSIVE quad_split_loop(_, _, _, _, _, _)
quad_split_loop(items, i, lbox, lefts, rbox, rights) ==
  IF i > Len(items)
  THEN [lbox |-> lbox, lefts |-> lefts, rbox |-> rbox, rights |-> rights]
  ELSE LET item == items[i]
           ibox == mbr(item)
           comparison == partial_cmp(expansion(lbox, ibox), expansion(rbox, ibox))
       IN IF choose_group(comparison, Len(lefts), Len(rights)) = "L"
          THEN quad_split_loop(items, i + 1, union(mbr(item), lbox),
                               Append(lefts, item), rbox, rights)
          ELSE quad_split_loop(items, i + 1, lbox, lefts,
                               union(mbr(item), rbox), Append(rights, item))

\* quad_split whose loop starts at the second item: the first is dropped.
quad_split_skip_first(items) ==
  LET seeds == pick_seeds(seed_pairs(items))
  IN IF seeds = None THEN None
     ELSE LET r == quad_split_loop(items, 2, seeds[1][1], <<>>, seeds[1][2], <<>>)
          IN Some([seeds |-> seeds[1], lbox |-> r.lbox, lefts |-> r.lefts,
                   rbox |-> r.rbox, rights |-> r.rights])

\* util::quad_split (lib.rs:278-315).  None stands for the panic of
\* expect("Unsufficient nodes"); Some(r) for the returned tuple, to which the
\* model adds the seeds pick_seeds chose.
quad_split(items) ==
  LET seeds == pick_seeds(seed_pairs(items))
  IN IF seeds = None THEN None
     ELSE LET r == quad_split_loop(items, 1, seeds[1][1], <<>>, seeds[1][2], <<>>)
          IN Some([seeds |-> seeds[1], lbox |-> r.lbox, lefts |-> r.lefts,
                   rbox |-> r.rbox, rights |-> r.rights])

\* The first loop of best_fit (lib.rs:327-337): the smallest child that
\* contains the target.
RECURSIVE best_fit_containing(_, _, _, _, _)
best_fit_containing(target, children, idx, min_volume, best_idx) ==
  IF idx > Len(children) THEN [min_volume |-> min_volume, best_idx |-> best_idx]
  ELSE LET bbox == mbr(children[idx])
           vol == volume(bbox)
       IN IF contains(bbox, target) /\ LtAcc(vol, min_volume)
          THEN best_fit_containing(target, children, idx + 1, F64(vol), Some(idx))
          ELSE best_fit_containing(target, children, idx + 1, min_volume, best_idx)

\* The value the second loop of best_fit minimises (lib.rs:346).
grown_volume(child, target) == volume(union(mbr(child), target))

\* The second loop of best_fit (lib.rs:345-354).
RECURSIVE best_fit_growing(_, _, _, _, _)
best_fit_growing(target, children, idx, min_volume, best_idx) ==
  IF idx > Len(children) THEN [min_volume |-> min_volume, best_idx |-> best_idx]
  ELSE LET vol == grown_volume(children[idx], target)
       IN IF LtAcc(vol, min_volume)
          THEN best_fit_growing(target, children, idx + 1, F64(vol), Some(idx))
          ELSE best_fit_growing(target, children, idx + 1, min_volume, best_idx)

\* util::best_fit (lib.rs:317-361): None for no children, else Some(position).
\* The panics on a NaN volume and the unreachable!() need a NaN or an
\* infinite volume, which integer boxes do not produce.
best_fit(target, children) ==
  IF Len(children) = 0 THEN None
  ELSE LET first == best_fit_containing(target, children, 1, F64_MAX, None)
       IN IF first.best_idx # None THEN first.best_idx
          ELSE best_fit_growing(target, children, 1, first.min_volume,
                                first.best_idx).best_idx

(***************************************************************************)
(* lib.rs, the tree.  A stored item T is [id, bbox]: its identity and the  *)
(* box its mbr() returns.  A node is [bbox, storage], its storage          *)
(* [kind |-> "Interior" or "Leaf", vec |-> the children or the entries].   *)
(***************************************************************************)
Item(id, bbox) == [id |-> id, bbox |-> bbox]

\* LeafItem::new (lib.rs:46-52).
LeafItem_new(item) == [bbox |-> mbr(item), item |-> item]

\* NodeStorage::new_leaf_node (lib.rs:61-63).
new_leaf_node(item) == [kind |-> "Leaf", vec |-> <<LeafItem_new(item)>>]

\* RTreeNode::new (lib.rs:94-101).
RTreeNode_new(item) == [bbox |-> mbr(item), storage |-> new_leaf_node(item)]

\* shallow_len (lib.rs:65-70, 107-109).
shallow_len(self) == Len(self.storage.vec)

\* deep_len (lib.rs:72-79, 111-113).
RECURSIVE deep_len(_)
deep_len(self) ==
  IF self.storage.kind = "Leaf" THEN Len(self.storage.vec)
  ELSE LET RECURSIVE fold(_, _)
           fold(i, a) == IF i > Len(self.storage.vec) THEN a
                         ELSE fold(i + 1, a + deep_len(self.storage.vec[i]))
       IN fold(1, 0)

\* is_full with the comparison off by one: a node of NODE_SIZE entries is
\* not yet full.
is_full_off_by_one(self) == NODE_SIZE < shallow_len(self)

\* RTreeNode::is_full (lib.rs:103-105).
is_full(self) == NODE_SIZE <= shallow_len(self)

\* InsertionResult (lib.rs:28-38), and "Panic" for a call that does not
\* return: it reached unimplemented!().
Fit == [tag |-> "Fit", items |-> <<>>]
Expanded == [tag |-> "Expanded", items |-> <<>>]
Split(items) == [tag |-> "Split", items |-> items]
Panic == [tag |-> "Panic", items |-> <<>>]

\* The leaf arm without the update of the node's box.
leaf_insert_stale_bbox(self, item) ==
  [node |-> [bbox |-> self.bbox,
             storage |-> [kind |-> "Leaf",
                          vec |-> Append(self.storage.vec, LeafItem_new(item))]],
   res |-> Fit]

\* The leaf arm of RTreeNode::insert (lib.rs:153-157).
leaf_insert(self, item) ==
  [node |-> [bbox |-> union(self.bbox, mbr(item)),
             storage |-> [kind |-> "Leaf",
                          vec |-> Append(self.storage.vec, LeafItem_new(item))]],
   res |-> Fit]

\* RTreeNode::insert (lib.rs:132-160): the node afterwards and the result.
RECURSIVE RTreeNode_insert(_, _)
RTreeNode_insert(self, item) ==
  LET item_bbox == mbr(item)
  IN IF is_full(self) THEN [node |-> self, res |-> Split(<<item>>)]
     ELSE IF self.storage.kind = "Interior"
     THEN LET children == self.storage.vec
              best == best_fit(item_bbox, children)
          IN IF best = None THEN [node |-> self, res |-> Panic]
             ELSE LET best_child == best[1]
                      r == RTreeNode_insert(children[best_child], item)
                      after == [self EXCEPT !.storage.vec[best_child] = r.node]
                  IN IF r.res.tag = "Fit" THEN [node |-> after, res |-> Fit]
                     ELSE [node |-> after, res |-> Panic]
     ELSE leaf_insert(self, item)

\* RTree::insert (lib.rs:170-189) on the tree's Option<RTreeNode>.  A panic
\* leaves None behind: the root was taken out (lib.rs:176) and is dropped.
\* outcome is what the root's insert reported, "NewRoot" when the tree was
\* empty.
RTree_insert(self, item) ==
  IF self = None
  THEN [root |-> Some(RTreeNode_new(item)), outcome |-> "NewRoot", panicked |-> FALSE]
  ELSE LET r == RTreeNode_insert(self[1], item)
       IN IF r.res.tag = "Fit"
          THEN [root |-> Some(r.node), outcome |-> "Fit", panicked |-> FALSE]
          ELSE [root |-> None, outcome |-> r.res.tag, panicked |-> TRUE]

(***************************************************************************)
(* lib.rs, the query iterator: [stack, leaf_iter, ray].  leaf_iter is the  *)
(* Option of the entries the open leaf's slice iterator has left.          *)
(***************************************************************************)
\* Iter::new (lib.rs:202-214).
Iter_new(rtree, ray) ==
  [stack |-> IF rtree # None THEN <<rtree[1]>> ELSE <<>>,
   leaf_iter |-> None,
   ray |-> ray]

\* first_match without the filter: the next entry, whatever its box.
first_match_unfiltered(s, ray, i) == IF i > Len(s) THEN 0 ELSE i

\* The position of the first entry of s whose box the ray intersects, 0 when
\* there is none: what filter(..).next() stops at (lib.rs:223).
RECURSIVE first_match(_, _, _)
first_match(s, ray, i) ==
  IF i > Len(s) THEN 0
  ELSE IF intersects(s[i].bbox, ray) THEN i
  ELSE first_match(s, ray, i + 1)

\* rest_after that does not advance past the entry returned.
rest_after_no_advance(s, k) == SubSeq(s, k, Len(s))

\* What the slice iterator has left after filter(..).next() returned the
\* entry at position k (lib.rs:223).
rest_after(s, k) == SubSeq(s, k + 1, Len(s))

\* The children an interior node pushes (lib.rs:232-238).
pushed_children(children, ray) ==
  SelectSeq(children, LAMBDA child : intersects(child.bbox, ray))

\* Iter::next (lib.rs:219-247): the iterator afterwards and the value
\* returned, Some(item) or None.
RECURSIVE Iter_next(_)
Iter_next(self) ==
  LET k == IF self.leaf_iter = None THEN 0
           ELSE first_match(self.leaf_iter[1], self.ray, 1)
  IN IF k > 0
     THEN [it |-> [self EXCEPT !.leaf_iter =
                     Some(rest_after(self.leaf_iter[1], k))],
           val |-> Some(self.leaf_iter[1][k].item)]
     ELSE LET spent == [self EXCEPT !.leaf_iter =
                          IF self.leaf_iter = None THEN None ELSE Some(<<>>)]
          IN IF spent.stack # <<>>
             THEN LET node == spent.stack[Len(spent.stack)]
                      popped == SubSeq(spent.stack, 1, Len(spent.stack) - 1)
                  IN IF node.storage.kind = "Interior"
                     THEN Iter_next([spent EXCEPT !.stack =
                            popped \o pushed_children(node.storage.vec, spent.ray)])
                     ELSE Iter_next([spent EXCEPT !.stack = popped,
                                       !.leaf_iter = Some(node.storage.vec)])
             ELSE [it |-> spent, val |-> None]

(***************************************************************************)
(* The state.  root, status: the RTree and whether an insert has panicked. *)
(* iter: the live query iterator, if any (it borrows the tree, so nothing  *)
(* is inserted while it lives).  lastInsert, yielded, calls, lastRet       *)
(* record what the calls made so far did and returned.  call, ret: the     *)
(* arguments and the result of a call of one function on its own.          *)
(***************************************************************************)
VARIABLES root, status, lastInsert, iter, yielded, calls, lastRet, call, ret

vars == <<root, status, lastInsert, iter, yielded, calls, lastRet, call, ret>>

\* The boxes of the items inserted: two disjoint boxes on the x axis, one on
\* the y axis, and a flat box (of zero volume) inside the first.
BoxA == BBox(<<2, -1, -1>>, <<4, 1, 1>>)
BoxB == BBox(<<6, -1, -1>>, <<8, 1, 1>>)
BoxC == BBox(<<-1, 2, -1>>, <<1, 4, 1>>)
BoxD == BBox(<<2, 0, -1>>, <<4, 0, 1>>)
ItemBoxes == {BoxA, BoxB, BoxC, BoxD}

PosZero == DirVal(FALSE, 0)
PosOne == DirVal(FALSE, 1)
NegOne == DirVal(TRUE, 1)

\* The rays queried: along +x (through BoxA and BoxB), along +y (through
\* BoxC), from inside BoxA along +z, along -x (through nothing), and along
\* +y from below BoxA (through BoxA and the flat BoxD).
Rays ==
  { Ray_new(<<0, 0, 0>>, <<PosOne, PosZero, PosZero>>),
    Ray_new(<<0, 0, 0>>, <<PosZero, PosOne, PosZero>>),
    Ray_new(<<3, 0, 0>>, <<PosZero, PosZero, PosOne>>),
    Ray_new(<<0, 0, 0>>, <<NegOne, PosZero, PosZero>>),
    Ray_new(<<3, -2, 0>>, <<PosZero, PosOne, PosZero>>) }

NoInsert == [called |-> FALSE, outcome |-> "-", len_before |-> 0, height_before |-> 0]
NoCall == [fn |-> "-"]

RECURSIVE node_height(_)
node_height(node) ==
  IF node.storage.kind = "Leaf" THEN 1
  ELSE LET RECURSIVE fold(_, _)
           fold(i, a) == IF i > Len(node.storage.vec) THEN a
                         ELSE fold(i + 1, Max2(a, node_height(node.storage.vec[i])))
       IN 1 + fold(1, 0)

tree_height(rtree) == IF rtree = None THEN 0 ELSE node_height(rtree[1])
tree_len(rtree) == IF rtree = None THEN 0 ELSE deep_len(rtree[1])

\* RTree::new (lib.rs:166-168): the empty tree.
Init ==
  /\ root = None
  /\ status = "ok"
  /\ lastInsert = NoInsert
  /\ iter = None
  /\ yielded = <<>>
  /\ calls = 0
  /\ lastRet = "-"
  /\ call = NoCall
  /\ ret = None

\* A call of RTree::insert with an item of any of the boxes.
Insert ==
  /\ status = "ok"
  /\ iter = None
  /\ \E b \in ItemBoxes :
       LET r == RTree_insert(root, Item(tree_len(root) + 1, b))
       IN /\ root' = r.root
          /\ status' = IF r.panicked THEN "panicked" ELSE "ok"
          /\ lastInsert' = [called |-> TRUE, outcome |-> r.outcome,
                            len_before |-> tree_len(root),
                            height_before |-> tree_height(root)]
  /\ UNCHANGED <<iter, yielded, calls, lastRet, call, ret>>

\* A call of RTree::iter_ray (lib.rs:191-193).
IterRay ==
  /\ status = "ok"
  /\ iter = None
  /\ \E ray \in Rays : iter' = Some(Iter_new(root, ray))
  /\ yielded' = <<>>
  /\ calls' = 0
  /\ lastRet' = "-"
  /\ UNCHANGED <<root, status, lastInsert, call, ret>>

\* A call of next() on the live iterator, which is driven until it has
\* returned None.
IterNext ==
  /\ iter # None
  /\ lastRet # "None"
  /\ LET r == Iter_next(iter[1])
     IN /\ iter' = Some(r.it)
        /\ yielded' = IF r.val = None THEN yielded ELSE Append(yielded, r.val[1].id)
        /\ lastRet' = IF r.val = None THEN "None" ELSE "Some"
  /\ calls' = calls + 1
  /\ UNCHANGED <<root, status, lastInsert, call, ret>>

\* The iterator is dropped.
IterDrop ==
  /\ iter # None
  /\ iter' = None
  /\ yielded' = <<>>
  /\ calls' = 0
  /\ lastRet' = "-"
  /\ UNCHANGED <<root, status, lastInsert, call, ret>>

Next == Insert \/ IterRay \/ IterNext \/ IterDrop

Spec == Init /\ [][Next]_vars

(***************************************************************************)
(* The iterator on its own.  Iter::next never looks at how its tree was    *)
(* built, and its interior arm (lib.rs:232-238) runs only on a tree with   *)
(* interior nodes, which RTree::insert does not build.  SpecIter runs      *)
(* the iterator over every tree of a bounded family of well-formed trees   *)
(* of height 0 to 3: every node's box is the union of the boxes below it   *)
(* and no node is over capacity.                                           *)
(***************************************************************************)
\* The union of the boxes of a non-empty sequence of boxed things.
RECURSIVE union_from(_, _, _)
union_from(s, i, acc) ==
  IF i > Len(s) THEN acc ELSE union_from(s, i + 1, union_bbox(acc, s[i].bbox))

union_all(s) == union_from(s, 2, s[1].bbox)

\* The entries of a leaf: items with ids base+1, base+2, .. and boxes bs.
leaf_entries(base, bs) == [i \in 1..Len(bs) |-> LeafItem_new(Item(base + i, bs[i]))]

\* A leaf node of the given entries, and an interior node of the given
\* children, as the RTreeNode struct holds them (lib.rs:82-85).
make_leaf(entries) ==
  [bbox |-> union_all(entries), storage |-> [kind |-> "Leaf", vec |-> entries]]
make_interior(children) ==
  [bbox |-> union_all(children), storage |-> [kind |-> "Interior", vec |-> children]]

BoxSeqs(n) == UNION {[1..k -> ItemBoxes] : k \in 1..n}

Leaves(base, n) == {make_leaf(leaf_entries(base, bs)) : bs \in BoxSeqs(n)}

IterTrees ==
  {None}
    \cup {Some(l) : l \in Leaves(0, MaxLeafLen)}
    \cup {Some(make_interior(<<l1, l2>>)) :
            l1 \in Leaves(0, MaxLeafLen), l2 \in Leaves(MaxLeafLen, 1)}
    \cup {Some(make_interior(<<make_interior(<<l1, l2>>), l3>>)) :
            l1 \in Leaves(0, 1), l2 \in Leaves(1, 1), l3 \in Leaves(MaxLeafLen, 1)}

InitIter ==
  /\ root \in IterTrees
  /\ status = "ok"
  /\ lastInsert = NoInsert
  /\ iter = None
  /\ yielded = <<>>
  /\ calls = 0
  /\ lastRet = "-"
  /\ call = NoCall
  /\ ret = None

NextIter == IterRay \/ IterNext \/ IterDrop

SpecIter == InitIter /\ [][NextIter]_vars

(***************************************************************************)
(* Single functions on their own: the arguments are drawn in the initial   *)
(* state and the one action applies the function.                          *)
(***************************************************************************)
InitCall(calls_) ==
  /\ root = None
  /\ status = "ok"
  /\ lastInsert = NoInsert
  /\ iter = None
  /\ yielded = <<>>
  /\ calls = 0
  /\ lastRet = "-"
  /\ call \in calls_
  /\ ret = None

\* BBox::intersects for a ray from the centre of the box.  The boxes are the
\* valid boxes (min <= max on each axis, flat ones included) with corners on
\* the even grid; the directions have components in -MaxDir..MaxDir, with
\* both zeros, not all three of them zero.
GridCoords == {2 * k : k \in 0..HalfGrid}
GridPoints == GridCoords \X GridCoords \X GridCoords
GridBoxes ==
  {BBox(mn, mx) : <<mn, mx>> \in
     {pq \in GridPoints \X GridPoints : \A i \in 1..3 : pq[1][i] <= pq[2][i]}}
DirVals == {DirVal(neg, mag) : neg \in BOOLEAN, mag \in 0..MaxDir}
Directions == {d \in DirVals \X DirVals \X DirVals : \E i \in 1..3 : d[i].mag # 0}
centre(b) == [i \in 1..3 |-> (b.min[i] + b.max[i]) \div 2]

InitRay ==
  InitCall({[fn |-> "intersects", bbox |-> b, ray |-> Ray_new(centre(b), d)] :
              b \in GridBoxes, d \in Directions})

CallIntersects ==
  /\ call.fn = "intersects"
  /\ ret = None
  /\ ret' = Some(intersects(call.bbox, call.ray))
  /\ UNCHANGED <<root, status, lastInsert, iter, yielded, calls, lastRet, call>>

SpecRay == InitRay /\ [][CallIntersects]_vars

\* util::quad_split on every sequence of up to NODE_SIZE + 1 items, and
\* util::best_fit on every target and every sequence of 1 to NODE_SIZE
\* children, with boxes among those of the items, a box that spans BoxA and
\* BoxB, and a box next to BoxB.
BoxE == BBox(<<2, -1, -1>>, <<8, 1, 1>>)
BoxF == BBox(<<8, -1, -1>>, <<9, 1, 1>>)
UtilBoxes == ItemBoxes \cup {BoxE, BoxF}

ItemSeqs(lo, hi) ==
  UNION {{[i \in 1..k |-> Item(i, bs[i])] : bs \in [1..k -> UtilBoxes]} : k \in lo..hi}

InitSplit == InitCall({[fn |-> "quad_split", items |-> s] : s \in ItemSeqs(0, NODE_SIZE + 1)})

CallQuadSplit ==
  /\ call.fn = "quad_split"
  /\ ret = None
  /\ ret' = Some(quad_split(call.items))
  /\ UNCHANGED <<root, status, lastInsert, iter, yielded, calls, lastRet, call>>

SpecSplit == InitSplit /\ [][CallQuadSplit]_vars

InitFit ==
  InitCall({[fn |-> "best_fit", target |-> t, children |-> s] :
              t \in UtilBoxes, s \in ItemSeqs(0, NODE_SIZE)})

CallBestFit ==
  /\ call.fn = "best_fit"
  /\ ret = None
  /\ ret' = Some(best_fit(call.target, call.children))
  /\ UNCHANGED <<root, status, lastInsert, iter, yielded, calls, lastRet, call>>

SpecFit == InitFit /\ [][CallBestFit]_vars

\* RTreeNode::insert on one node: every leaf of 1 to NODE_SIZE entries (the
\* last ones full), every interior node of two single-entry leaves, and
\* every full interior node of NODE_SIZE single-entry leaves, with an item of
\* any of the boxes.  As in SpecIter the interior nodes are well-formed nodes
\* of the RTreeNode struct that RTree::insert itself does not build.
single_leaves(bs) == [i \in 1..Len(bs) |-> make_leaf(leaf_entries(i - 1, <<bs[i]>>))]

InsertNodes ==
  Leaves(0, NODE_SIZE)
    \cup {make_interior(single_leaves(bs)) : bs \in [1..2 -> ItemBoxes]}
    \cup {make_interior(single_leaves(bs)) : bs \in [1..NODE_SIZE -> ItemBoxes]}

InitNode ==
  InitCall({[fn |-> "insert", node |-> n, item |-> Item(deep_len(n) + 1, b)] :
              n \in InsertNodes, b \in ItemBoxes})

CallNodeInsert ==
  /\ call.fn = "insert"
  /\ ret = None
  /\ ret' = Some(RTreeNode_insert(call.node, call.item))
  /\ UNCHANGED <<root, status, lastInsert, iter, yielded, calls, lastRet, call>>

SpecNode == InitNode /\ [][CallNodeInsert]_vars

(***************************************************************************)
(* What the claims speak of.                                               *)
(***************************************************************************)
\* The leaf entries below a node, left to right.
RECURSIVE entries_of(_)
entries_of(node) ==
  IF node.storage.kind = "Leaf" THEN node.storage.vec
  ELSE LET RECURSIVE fold(_, _)
           fold(i, a) == IF i > Len(node.storage.vec) THEN a
                         ELSE fold(i + 1, a \o entries_of(node.storage.vec[i]))
       IN fold(1, <<>>)

tree_entries(rtree) == IF rtree = None THEN <<>> ELSE entries_of(rtree[1])

\* The nodes of the subtree at node, itself included.
RECURSIVE nodes_of(_)
nodes_of(node) ==
  IF node.storage.kind = "Leaf" THEN {node}
  ELSE {node} \cup UNION {nodes_of(node.storage.vec[i]) : i \in 1..Len(node.storage.vec)}

tree_nodes(rtree) == IF rtree = None THEN {} ELSE nodes_of(rtree[1])

NoDuplicates(s) == \A i, j \in 1..Len(s) : i # j => s[i] # s[j]
Range(s) == {s[i] : i \in 1..Len(s)}

\* The ids of the stored items whose cached box the ray intersects.
HitIds(rtree, ray) ==
  {e.item.id : e \in {x \in Range(tree_entries(rtree)) : intersects(x.bbox, ray)}}

\* C1: every call of RTree::insert returns without panicking, and the tree
\* then holds exactly one item more than before the call.
C1_InsertNeverFails ==
  lastInsert.called =>
    /\ status = "ok"
    /\ tree_len(root) = lastInsert.len_before + 1

C3_BBoxIsUnion ==
  \A node \in tree_nodes(root) : node.bbox = union_all(node.storage.vec)

\* C3, its case: an insert into a non-empty leaf has returned and the leaf's
\* box is larger than the box of its first entry.
C3_Witness ==
  /\ lastInsert.outcome = "Fit"
  /\ root # None
  /\ root[1].bbox # root[1].storage.vec[1].bbox

\* C4: whenever insert has returned, no node holds more than NODE_SIZE
\* direct entries or children.
C4_Capacity ==
  \A node \in tree_nodes(root) : shallow_len(node) <= NODE_SIZE

\* C4, its case: an insert has returned and left the root full.
C4_Witness ==
  /\ lastInsert.outcome = "Fit"
  /\ root # None
  /\ shallow_len(root[1]) = NODE_SIZE

\* C5: after an insert in which the root's insert reported Split, the tree
\* has an interior root with exactly two children, whose box is the union of
\* theirs, and is one higher than before; after an insert that reported Fit
\* or Expanded the height is what it was.
C5_RootSplitGrowsHeight ==
  /\ lastInsert.outcome = "Split" =>
       /\ root # None
       /\ root[1].storage.kind = "Interior"
       /\ shallow_len(root[1]) = 2
       /\ root[1].bbox = union_all(root[1].storage.vec)
       /\ tree_height(root) = lastInsert.height_before + 1
  /\ lastInsert.outcome \in {"Fit", "Expanded"} =>
       tree_height(root) = lastInsert.height_before

\* The iterator has nothing left: its stack is empty and its open leaf, if
\* any, has no remaining entry whose box the ray intersects.
Drained(it) ==
  /\ it.stack = <<>>
  /\ it.leaf_iter # None =>
       \A i \in 1..Len(it.leaf_iter[1]) : ~intersects(it.leaf_iter[1][i].bbox, it.ray)

\* The calls of next() made so far that returned an item.
ItemCalls == IF lastRet = "None" THEN calls - 1 ELSE calls

C6_State ==
  iter # None =>
    /\ ItemCalls <= Cardinality(tree_nodes(root)) + Len(tree_entries(root))
    /\ ItemCalls = Len(yielded)
    /\ lastRet = "None" => Drained(iter[1])
    /\ (root = None /\ calls >= 1) => lastRet = "None"

C6_Step ==
  (iter # None /\ iter' # None /\ calls' = calls + 1) =>
    /\ Drained(iter[1]) => lastRet' = "None"
    /\ lastRet' = "None" => Drained(iter'[1])
    /\ lastRet' = "Some" => ~Drained(iter[1])

C7_CentreRayIntersects ==
  (call.fn = "intersects" /\ ret # None) => ret[1] = TRUE

\* C8: quad_split of at least two entries returns, and with both lefts and
\* rights non-empty.
C8_BothGroupsNonEmpty ==
  (call.fn = "quad_split" /\ ret # None /\ Len(call.items) >= 2) =>
    /\ ret[1] # None
    /\ ret[1][1].lefts # <<>>
    /\ ret[1][1].rights # <<>>

\* C8, its case: a split of NODE_SIZE + 1 entries that put all but one of
\* them into lefts.
C8_Witness ==
  /\ call.fn = "quad_split"
  /\ ret # None
  /\ Len(call.items) = NODE_SIZE + 1
  /\ ret[1] # None
  /\ Len(ret[1][1].lefts) = NODE_SIZE
  /\ Len(ret[1][1].rights) = 1

\* The pair of distinct entries of greatest waste, the first in ascending
\* order of (i, j) among equals.
DistinctPairs(items) == {p \in (1..Len(items)) \X (1..Len(items)) : p[1] # p[2]}
waste(items, p) == seed_difference(mbr(items[p[1]]), mbr(items[p[2]]))
PairBefore(p, q) == p[1] < q[1] \/ (p[1] = q[1] /\ p[2] <= q[2])
MaxWastePair(items) ==
  CHOOSE p \in DistinctPairs(items) :
    \A q \in DistinctPairs(items) :
      \/ waste(items, p) > waste(items, q)
      \/ waste(items, p) = waste(items, q) /\ PairBefore(p, q)

\* C9: the seeds of the quadratic split are the boxes of the pair of
\* distinct entries of greatest waste, the first such pair in ascending
\* index order.
C9_SeedsAreMaxWastePair ==
  (call.fn = "quad_split" /\ ret # None /\ Len(call.items) >= 2) =>
    /\ ret[1] # None
    /\ LET p == MaxWastePair(call.items)
       IN ret[1][1].seeds = <<mbr(call.items[p[1]]), mbr(call.items[p[2]])>>

\* The reference rule of ChooseSubtree: the lowest position of least key
\* among the positions in S.
LeastBy(S, key(_)) ==
  CHOOSE i \in S : \A j \in S : key(i) < key(j) \/ (key(i) = key(j) /\ i <= j)
RefBestFit(target, children) ==
  LET all == 1..Len(children)
      containing == {i \in all : contains(mbr(children[i]), target)}
      vol(i) == volume(mbr(children[i]))
      growth(i) == volume(union(mbr(children[i]), target)) - volume(mbr(children[i]))
  IN IF containing # {} THEN LeastBy(containing, vol) ELSE LeastBy(all, growth)

\* C10: best_fit returns the position the reference rule gives: the first
\* smallest child containing the target, else the first child of least
\* volume growth.
C10_BestFitIsReference ==
  (call.fn = "best_fit" /\ ret # None /\ Len(call.children) >= 1) =>
    ret[1] = Some(RefBestFit(call.target, call.children))

\* C11: insert into a leaf that is not full appends the entry, makes the
\* node's box the union of its old box and the item's box, and reports Fit
\* exactly when the box is unchanged and Expanded exactly when it changed.
C11_LeafInsertReportsChange ==
  (/\ call.fn = "insert"
   /\ ret # None
   /\ call.node.storage.kind = "Leaf"
   /\ shallow_len(call.node) < NODE_SIZE) =>
    /\ ret[1].node.storage.vec = Append(call.node.storage.vec, LeafItem_new(call.item))
    /\ ret[1].node.bbox = union_bbox(call.node.bbox, call.item.bbox)
    /\ ret[1].res.tag = "Fit" <=> ret[1].node.bbox = call.node.bbox
    /\ ret[1].res.tag = "Expanded" <=> ret[1].node.bbox # call.node.bbox

BoxesOf(s) == {mbr(s[i]) : i \in 1..Len(s)}

\* C13: the box quad_split returns for each group is the union of the boxes
\* of exactly the entries of that group, and the seed each box started from
\* is the box of an entry of that group.
C13_GroupBoxIsUnionOfGroup ==
  (call.fn = "quad_split" /\ ret # None /\ ret[1] # None) =>
    LET r == ret[1][1]
    IN /\ r.lefts # <<>> => r.lbox = union_all(r.lefts)
       /\ r.rights # <<>> => r.rbox = union_all(r.rights)
       /\ r.lefts # <<>> => r.seeds[1] \in BoxesOf(r.lefts)
       /\ r.rights # <<>> => r.seeds[2] \in BoxesOf(r.rights)

\* How often x occurs in s.
Occurrences(s, x) == Cardinality({i \in 1..Len(s) : s[i] = x})

\* C14: whenever quad_split returns, every input entry is in exactly one of
\* the two groups, exactly once, nothing else is in them, and the sizes of
\* the groups add up to the size of the input.
C14_SplitConserves ==
  (call.fn = "quad_split" /\ ret # None /\ ret[1] # None) =>
    LET r == ret[1][1]
        out == r.lefts \o r.rights
    IN /\ Len(r.lefts) + Len(r.rights) = Len(call.items)
       /\ \A i \in 1..Len(call.items) : Occurrences(out, call.items[i]) = 1
       /\ Range(out) = Range(call.items)

\* C14, its case: a split of NODE_SIZE + 1 entries has returned with at
\* least two entries in each group.
C14_Witness ==
  /\ call.fn = "quad_split"
  /\ ret # None
  /\ ret[1] # None
  /\ Len(call.items) = NODE_SIZE + 1
  /\ Len(ret[1][1].lefts) >= 2
  /\ Len(ret[1][1].rights) >= 2

====
